---- MODULE Spec2Model ----
(***************************************************************************)
(* erfiume_bot: the ingestion run (erfiume_fetcher.update), the enrichment *)
(* pipeline (apis.enrich_data) and the station store                       *)
(* (storage.AsyncDynamoDB) as a state machine.                             *)
(*                                                                         *)
(* Every run is an asyncio task; it is suspended only at an await, so one  *)
(* action is the code between two awaits.  The table "Stazioni" lives in   *)
(* DynamoDB and is shared by all runs.                                     *)
(***************************************************************************)
EXTENDS Integers, Sequences, FiniteSets, TLC

\* ---------------------------------------------------------------- bounds
MaxTime == 2        \* upstream timestamps are 0..MaxTime
MaxValue == 1       \* upstream reading values are None or 0..MaxValue
MaxSeries == 2      \* readings in one fetched time series
MaxStations == 2    \* station entries in one upstream list
MaxOverlapStations == 1  \* the same, where the pipeline is taken as one step
MaxClock == 20      \* the clock of the bot runs from 0 to MaxClock minutes
TickMinutes == 5    \* the clock is looked at every TickMinutes minutes
MaxReading == 4     \* the readings create_station_message is checked on: 0..MaxReading
MaxThreshold == 3   \* the thresholds it is checked on: 1..MaxThreshold
MaxCalls == 8       \* calls of check_throttled_user the history keeps

\* ------------------------------------------------------------- constants
UNKNOWN_VALUE == -9999
\* Python's None where a float is expected (value: float | None)
NoneValue == -1
THROTTLING_THRESHOLD == 5
\* minutes
THROTTLING_TIME == 15
\* datetime.timestamp() and timedelta.total_seconds() are in seconds
SecondsPerMinute == 60
\* thefuzz: the score below which extractOne drops a choice
FUZZ_SCORE_CUTOFF == 80

Runs == {"run1", "run2"}
Names == {"Faenza", "Cesena"}

\* the latest time of the upstream, and the time stamps of the readings
Times == 0..MaxTime
ReadingTimes == 1..MaxTime
Values == {NoneValue} \cup (0..MaxValue)

\* ------------------------------------------------------------------ data
\* @dataclass Valore(t: int, v: float); __post_init__ makes t an int
Valore == [t : ReadingTimes, v : 0..MaxValue]

SeqsUpTo(S, n) == UNION {[1..k -> S] : k \in 0..n}

\* what fetch_time_series can return: a list of Valore
SeriesSet == SeqsUpTo(Valore, MaxSeries)

\* Stazione.__post_init__: self.value = self.value or UNKNOWN_VALUE
\* (None and every falsy number, 0 included, become the sentinel)
PostInit(value) == IF value = NoneValue \/ value = 0 THEN UNKNOWN_VALUE ELSE value

\* one station entry of the upstream list (the fields the dataclass takes)
UpstreamEntry(n, v) ==
    [idstazione |-> n, ordinamento |-> 1, nomestaz |-> n, lon |-> "lon",
     lat |-> "lat", soglia1 |-> 1, soglia2 |-> 2, soglia3 |-> 3, value |-> v]

\* Stazione(timestamp=time, **{k: v if v is not None else UNKNOWN_VALUE ...})
Stazione(time, entry) ==
    [timestamp |-> time,
     idstazione |-> entry.idstazione,
     ordinamento |-> entry.ordinamento,
     nomestaz |-> entry.nomestaz,
     lon |-> entry.lon,
     lat |-> entry.lat,
     soglia1 |-> entry.soglia1,
     soglia2 |-> entry.soglia2,
     soglia3 |-> entry.soglia3,
     value |-> PostInit(IF entry.value = NoneValue THEN UNKNOWN_VALUE ELSE entry.value)]

\* the upstream lists: station entries with distinct names
UpstreamLists ==
    {l \in SeqsUpTo(Names \X Values, MaxStations) :
        \A a, b \in 1..Len(l) : a # b => l[a][1] # l[b][1]}

\* the watermark entry of the upstream list: it has a "time" and no station
Marker(t) == [time |-> t]

\* the station entries of a list of names and values
EntriesOf(l) == [k \in 1..Len(l) |-> UpstreamEntry(l[k][1], l[k][2])]

\* list with entry e put in at position p
InsertAt(list, p, e) ==
    [k \in 1..(Len(list) + 1) |->
        IF k < p THEN list[k] ELSE IF k = p THEN e ELSE list[k - 1]]

\* response.json() of fetch_stations_data: the station entries, with or
\* without a watermark entry, at any place of the list
UpstreamData ==
    {EntriesOf(l) : l \in UpstreamLists}
    \cup UNION {{InsertAt(EntriesOf(l), p, Marker(t)) : p \in 1..(Len(l) + 1), t \in Times} :
                   l \in UpstreamLists}

\* ----------------------------------------------------------------- state
VARIABLES
    stazioni,      \* the table "Stazioni": nomestaz -> item (present keys only)
    pc,            \* per run: the await it is suspended at
    latest_time,   \* update(): latest_time
    stations,      \* update(): stations
    results,       \* enrich_data(): one outcome per fetch_time_series task
    idx,           \* update(): position of the for loop over stations
    response,      \* check_and_update_stazioni(): response of get_item
    raised,        \* the exception that ended the run, "None" when none
    freshest,      \* history: per station, the largest timestamp a call came with
    chats,         \* the table "Chats": id -> item (present keys only)
    clock,         \* datetime.now(), in minutes
    bot,           \* per invocation of the bot: the update and the handler's locals
    calls,         \* history: time and result of the check_throttled_user calls
    unseen_at,     \* history: the calls there were when the identity last had no record
    data,          \* fetch_stations_data(): data = response.json(), where it is given
    self,          \* create_station_message(): self, where it is given
    message        \* create_station_message(): value and alarm of the text it returns

fetchervars == <<stazioni, pc, latest_time, stations, results, idx, response, raised,
                 freshest, data, self, message>>
botvars == <<chats, clock, bot, calls, unseen_at>>
vars == <<stazioni, pc, latest_time, stations, results, idx, response, raised, freshest,
          chats, clock, bot, calls, unseen_at, data, self, message>>

Pending == [status |-> "pending", dati |-> <<>>]
Failed == [status |-> "exception", dati |-> <<>>]
Fetched(dati) == [status |-> "ok", dati |-> dati]

\* no response (yet); a response of get_item always has its metadata
NoResponse == <<>>
NoItem == [ResponseMetadata |-> "200"]
WithItem(item) == [ResponseMetadata |-> "200", Item |-> item]

\* no call of check_and_update_stazioni for the station so far
NoCall == [ts |-> 0 - 1, vs |-> {}]

\* no station is given to create_station_message, and no text is made
NoStazione == [nomestaz |-> "None"]
NoMessage == [value |-> "None", alarm |-> "None"]

\* the invocations of the bot's Lambda function
Invocations == {"bot1", "bot2"}

\* an invocation that has no update to handle
NoUpdate == [handler |-> "none", effective_user |-> "None", id |-> 0,
             message |-> FALSE, text |-> <<>>]

\* the locals of an invocation; checked: check_throttled_user has returned
\* and is_throttled is its result
Idle == [pc |-> "idle", update |-> NoUpdate, response |-> NoResponse,
         checked |-> FALSE, is_throttled |-> 0, match |-> "", station |-> "None",
         replies |-> <<>>, raised |-> "None"]

Init ==
    /\ stazioni = <<>>
    /\ pc = [r \in Runs |-> "idle"]
    /\ latest_time = [r \in Runs |-> 0]
    /\ stations = [r \in Runs |-> <<>>]
    /\ results = [r \in Runs |-> <<>>]
    /\ idx = [r \in Runs |-> 0]
    /\ response = [r \in Runs |-> NoResponse]
    /\ raised = [r \in Runs |-> "None"]
    /\ freshest = [n \in Names |-> NoCall]
    /\ chats = <<>>
    /\ clock = 0
    /\ bot = [c \in Invocations |-> Idle]
    /\ calls = <<>>
    /\ unseen_at = 0
    /\ data = <<>>
    /\ self = NoStazione
    /\ message = NoMessage

\* ------------------------------------------------------ erfiume_fetcher
\* handler -> asyncio.run(main()) -> update(): a new run starts
handler(r) ==
    /\ pc[r] = "idle"
    /\ pc' = [pc EXCEPT ![r] = "fetch_latest_time"]
    /\ UNCHANGED <<stazioni, latest_time, stations, results, idx, response, raised,
                   freshest>>
    /\ UNCHANGED <<data, self, message, botvars>>

\* update() has returned or raised: asyncio.run ends and the run is over
main(r) ==
    /\ pc[r] = "done"
    /\ pc' = [pc EXCEPT ![r] = "idle"]
    /\ latest_time' = [latest_time EXCEPT ![r] = 0]
    /\ stations' = [stations EXCEPT ![r] = <<>>]
    /\ results' = [results EXCEPT ![r] = <<>>]
    /\ idx' = [idx EXCEPT ![r] = 0]
    /\ response' = [response EXCEPT ![r] = NoResponse]
    /\ raised' = [raised EXCEPT ![r] = "None"]
    /\ UNCHANGED <<stazioni, freshest>>
    /\ UNCHANGED <<data, self, message, botvars>>

\* Raise that goes on with the next statement of update()
RaiseAndGoOn(r, e) ==
    /\ raised' = [raised EXCEPT ![r] = e]
    /\ pc' = [pc EXCEPT ![r] = "gather"]

\* an exception leaves update(): the two httpx classes are logged there,
\* every other class goes on to the caller; no later statement of the run runs
Raise(r, e) ==
    /\ raised' = [raised EXCEPT ![r] = e]
    /\ pc' = [pc EXCEPT ![r] = "done"]

\* what fetch_latest_time and fetch_stations_data raise
FetchErrors == {"HTTPStatusError", "ConnectTimeout", "KeyError"}

\* latest_time = await fetch_latest_time(http_client)
FetchLatestTime(r) ==
    /\ pc[r] = "fetch_latest_time"
    /\ \/ \E time \in Times :
            /\ latest_time' = [latest_time EXCEPT ![r] = time]
            /\ pc' = [pc EXCEPT ![r] = "fetch_stations_data"]
            /\ UNCHANGED raised
       \/ \E e \in FetchErrors :
            /\ Raise(r, e)
            /\ UNCHANGED latest_time
    /\ UNCHANGED <<stazioni, stations, results, idx, response, freshest>>
    /\ UNCHANGED <<data, self, message, botvars>>

\* the comprehension that ends at the first entry with a "time"
StationsOfUntilMarker(time, list) ==
    LET markers == {k \in 1..Len(list) : "time" \in DOMAIN list[k]}
        last == IF markers = {} THEN Len(list)
                ELSE (CHOOSE k \in markers : \A j \in markers : k <= j) - 1
    IN [k \in 1..last |-> Stazione(time, list[k])]

\* fetch_stations_data's list comprehension: a Stazione with timestamp=time
\* for every entry of data that has no "time", in the order of data
StationsOf(time, list) ==
    LET NoTime(stazione) == "time" \notin DOMAIN stazione
        kept == SelectSeq(list, NoTime)
    IN [k \in 1..Len(kept) |-> Stazione(time, kept[k])]

\* fetch_stations_data returns its list for the response list, and
\* enrich_data creates one fetch_time_series task per station
FetchStationsDataReturns(r, list) ==
    /\ stations' = [stations EXCEPT ![r] = StationsOf(latest_time[r], list)]
    /\ results' = [results EXCEPT ![r] =
                      [k \in 1..Len(StationsOf(latest_time[r], list)) |-> Pending]]
    /\ pc' = [pc EXCEPT ![r] = "gather"]
    /\ UNCHANGED raised

\* stations = await fetch_stations_data(http_client, latest_time), then
\* enrich_data creates one fetch_time_series task per station and awaits gather
FetchStationsData(r) ==
    /\ pc[r] = "fetch_stations_data"
    /\ \/ \E list \in UpstreamData : FetchStationsDataReturns(r, list)
       \/ \E e \in FetchErrors :
            /\ Raise(r, e)
            /\ UNCHANGED <<stations, results>>
    /\ UNCHANGED <<stazioni, latest_time, idx, response, freshest>>
    /\ UNCHANGED <<data, self, message, botvars>>

\* ---------------------------------------------------------- enrich_data
\* FetchTimeSeries in which the request for the first station gets no answer
FetchTimeSeriesHangs(r, k) ==
    /\ pc[r] = "gather"
    /\ k \in 2..Len(results[r])
    /\ results[r][k] = Pending
    /\ \/ \E dati \in SeriesSet :
            results' = [results EXCEPT ![r][k] = Fetched(dati)]
       \/ results' = [results EXCEPT ![r][k] = Failed]
    /\ UNCHANGED <<stazioni, pc, latest_time, stations, idx, response, raised, freshest>>
    /\ UNCHANGED <<data, self, message, botvars>>

\* FetchTimeSeries that sends the request of a failed task again
FetchTimeSeriesAgain(r, k) ==
    /\ pc[r] = "gather"
    /\ k \in 1..Len(results[r])
    /\ results[r][k] \in {Pending, Failed}
    /\ \/ \E dati \in SeriesSet :
            results' = [results EXCEPT ![r][k] = Fetched(dati)]
       \/ results' = [results EXCEPT ![r][k] = Failed]
    /\ UNCHANGED <<stazioni, pc, latest_time, stations, idx, response, raised, freshest>>
    /\ UNCHANGED <<data, self, message, botvars>>

\* one fetch_time_series task completes, with a list of Valore or an exception
\* (gather(return_exceptions=True) keeps the exception as the task's result)
FetchTimeSeries(r, k) ==
    /\ pc[r] = "gather"
    /\ k \in 1..Len(results[r])
    /\ results[r][k] = Pending
    /\ \/ \E dati \in SeriesSet :
            results' = [results EXCEPT ![r][k] = Fetched(dati)]
       \/ results' = [results EXCEPT ![r][k] = Failed]
    /\ UNCHANGED <<stazioni, pc, latest_time, stations, idx, response, raised, freshest>>
    /\ UNCHANGED <<data, self, message, botvars>>

\* max(dati, key=lambda x: x.t): the first element with the largest t
MaxByT(dati) ==
    dati[CHOOSE j \in 1..Len(dati) :
            /\ \A k \in 1..Len(dati) : dati[k].t <= dati[j].t
            /\ \A k \in 1..(j - 1) : dati[k].t < dati[j].t]

\* the first station of the for loop whose max() raises ValueError: a fetched,
\* empty series; 0 when there is none
FirstEmpty(res) ==
    IF \E k \in 1..Len(res) : res[k] = Fetched(<<>>)
    THEN CHOOSE k \in 1..Len(res) :
            /\ res[k] = Fetched(<<>>)
            /\ \A j \in 1..(k - 1) : res[j] # Fetched(<<>>)
    ELSE 0

\* the body of the for loop of enrich_data, for one pair of zip(stations, results)
EnrichOne(stazione, dati) ==
    IF dati.status = "exception"
    THEN stazione
    ELSE [stazione EXCEPT !.value = MaxByT(dati.dati).v,
                          !.timestamp = MaxByT(dati.dati).t]

\* the for loop of enrich_data, run for the first n stations
EnrichLoop(sts, res, n) ==
    [k \in 1..Len(sts) |-> IF k <= n THEN EnrichOne(sts[k], res[k]) ELSE sts[k]]

\* the for loop of enrich_data: it stops with ValueError at the first max() of
\* an empty list
EnrichOutcome(sts, res) ==
    LET e == FirstEmpty(res) IN
    IF e # 0
    THEN [stations |-> EnrichLoop(sts, res, e - 1), raised |-> "ValueError"]
    ELSE [stations |-> EnrichLoop(sts, res, Len(sts)), raised |-> "None"]

\* EnrichData that does not wait for the tasks that are pending: it takes
\* them as failed
EnrichDataEarly(r) ==
    /\ pc[r] = "gather"
    /\ LET res == [k \in 1..Len(results[r]) |->
                      IF results[r][k] = Pending THEN Failed ELSE results[r][k]]
           o == EnrichOutcome(stations[r], res) IN
         /\ stations' = [stations EXCEPT ![r] = o.stations]
         /\ raised' = [raised EXCEPT ![r] = o.raised]
         /\ IF o.raised = "None" /\ Len(stations[r]) > 0
            THEN /\ pc' = [pc EXCEPT ![r] = "get_item"]
                 /\ idx' = [idx EXCEPT ![r] = 1]
            ELSE /\ pc' = [pc EXCEPT ![r] = "done"]
                 /\ UNCHANGED idx
    /\ results' = [results EXCEPT ![r] = <<>>]
    /\ UNCHANGED <<stazioni, latest_time, response, freshest>>
    /\ UNCHANGED <<data, self, message, botvars>>

\* gather has every result: the for loop of enrich_data runs (no await in it),
\* and update() goes on to its own loop over the stations
EnrichData(r) ==
    /\ pc[r] = "gather"
    /\ \A k \in 1..Len(results[r]) : results[r][k] # Pending
    /\ LET o == EnrichOutcome(stations[r], results[r]) IN
         /\ stations' = [stations EXCEPT ![r] = o.stations]
         /\ raised' = [raised EXCEPT ![r] = o.raised]
         /\ IF o.raised = "None" /\ Len(stations[r]) > 0
            THEN /\ pc' = [pc EXCEPT ![r] = "get_item"]
                 /\ idx' = [idx EXCEPT ![r] = 1]
            ELSE /\ pc' = [pc EXCEPT ![r] = "done"]
                 /\ UNCHANGED idx
    /\ results' = [results EXCEPT ![r] = <<>>]
    /\ UNCHANGED <<stazioni, latest_time, response, freshest>>
    /\ UNCHANGED <<data, self, message, botvars>>

\* -------------------------------------------------------------- storage
\* get_item(Key={"nomestaz": ...}, ProjectionExpression="timestamp")
GetItemTimestamp(table, key) ==
    IF key \in DOMAIN table
    THEN WithItem([a \in DOMAIN table[key] \cap {"timestamp"} |-> table[key][a]])
    ELSE NoItem

\* the value update_item is given: Decimal(str(station.value)), the sentinel
\* for None
NewValue(station) ==
    IF station.value # NoneValue THEN station.value ELSE UNKNOWN_VALUE

\* UpdateItem with an update expression that sets the timestamp alone: the
\* value of a record that was there stays as it was
UpdateItemTimestampOnly(table, station) ==
    LET key == station.nomestaz
        old == IF key \in DOMAIN table THEN table[key] ELSE [nomestaz |-> key]
        new == [a \in DOMAIN old \cup {"timestamp", "value"} |->
                   CASE a = "timestamp" -> station.timestamp
                     [] a = "value" /\ a \notin DOMAIN old -> NewValue(station)
                     [] OTHER -> old[a]]
    IN [k \in DOMAIN table \cup {key} |-> IF k = key THEN new ELSE table[k]]

\* UpdateItem that sets the timestamp of every record of the table
UpdateItemEveryRecord(table, station) ==
    LET key == station.nomestaz
        old == IF key \in DOMAIN table THEN table[key] ELSE [nomestaz |-> key]
        new == [a \in DOMAIN old \cup {"timestamp", "value"} |->
                   CASE a = "timestamp" -> station.timestamp
                     [] a = "value" -> NewValue(station)
                     [] OTHER -> old[a]]
    IN [k \in DOMAIN table \cup {key} |->
           IF k = key THEN new ELSE [table[k] EXCEPT !.timestamp = station.timestamp]]

\* UpdateItem that leaves the written record alone in the table
UpdateItemAlone(table, station) ==
    LET key == station.nomestaz
        old == IF key \in DOMAIN table THEN table[key] ELSE [nomestaz |-> key]
        new == [a \in DOMAIN old \cup {"timestamp", "value"} |->
                   CASE a = "timestamp" -> station.timestamp
                     [] a = "value" -> NewValue(station)
                     [] OTHER -> old[a]]
    IN [k \in {key} |-> new]

\* update_item(Key, "SET #ts = :new_timestamp, #vl = :new_value"): DynamoDB
\* sets the two attributes of the item, creating the item when the key is new
UpdateItem(table, station) ==
    LET key == station.nomestaz
        old == IF key \in DOMAIN table THEN table[key] ELSE [nomestaz |-> key]
        new == [a \in DOMAIN old \cup {"timestamp", "value"} |->
                   CASE a = "timestamp" -> station.timestamp
                     [] a = "value" -> NewValue(station)
                     [] OTHER -> old[a]]
    IN [k \in DOMAIN table \cup {key} |-> IF k = key THEN new ELSE table[k]]

\* IsNewer with >= for >
IsNewerOrSame(station, latest_timestamp) == station.timestamp >= latest_timestamp

\* line 80: if station.timestamp > latest_timestamp
IsNewer(station, latest_timestamp) == station.timestamp > latest_timestamp

\* the station the for loop of update() is at
Current(r) == stations[r][idx[r]]

\* check_and_update_stazioni returns: the for loop of update() goes on
Return(r) ==
    /\ UNCHANGED raised
    /\ IF idx[r] < Len(stations[r])
       THEN /\ idx' = [idx EXCEPT ![r] = idx[r] + 1]
            /\ pc' = [pc EXCEPT ![r] = "get_item"]
       ELSE /\ pc' = [pc EXCEPT ![r] = "done"]
            /\ UNCHANGED idx

\* check_and_update_stazioni up to its second await: get_item, the comparison
\* of the timestamps and the choice of the branch.  The put_item of line 98
\* needs an item that is there and empty, and int() of line 74 has raised
\* TypeError on that item before.
CheckGetItem(r) ==
    /\ pc[r] = "get_item"
    /\ \/ LET resp == GetItemTimestamp(stazioni, Current(r).nomestaz) IN
            /\ response' = [response EXCEPT ![r] = resp]
            /\ IF "Item" \in DOMAIN resp /\ "timestamp" \notin DOMAIN resp.Item
               THEN Raise(r, "TypeError") /\ UNCHANGED idx
               ELSE LET latest_timestamp ==
                            IF "Item" \in DOMAIN resp THEN resp.Item.timestamp ELSE 0
                    IN IF IsNewer(Current(r), latest_timestamp)
                       THEN /\ pc' = [pc EXCEPT ![r] = "update_item"]
                            /\ UNCHANGED <<idx, raised>>
                       ELSE IF "Item" \notin DOMAIN resp
                       THEN Raise(r, "KeyError") /\ UNCHANGED idx
                       ELSE Return(r)
       \/ \* get_item fails
          /\ Raise(r, "ClientError")
          /\ response' = [response EXCEPT ![r] = NoResponse]
          /\ UNCHANGED idx
    /\ UNCHANGED <<stazioni, latest_time, stations, results>>
    /\ UNCHANGED <<data, self, message, botvars>>

\* CheckUpdateItem whose failed update_item has set the timestamp
CheckUpdateItemPartial(r) ==
    /\ pc[r] = "update_item"
    /\ \/ /\ stazioni' = UpdateItem(stazioni, Current(r))
          /\ Return(r)
       \/ /\ Raise(r, "ClientError")
          /\ stazioni' = UpdateItemTimestampOnly(stazioni, Current(r))
          /\ UNCHANGED idx
    /\ UNCHANGED <<latest_time, stations, results, response>>
    /\ UNCHANGED <<data, self, message, botvars>>

\* the await of update_item ends
CheckUpdateItem(r) ==
    /\ pc[r] = "update_item"
    /\ \/ /\ stazioni' = UpdateItem(stazioni, Current(r))
          /\ Return(r)
       \/ /\ Raise(r, "ClientError")
          /\ UNCHANGED <<stazioni, idx>>
    /\ UNCHANGED <<latest_time, stations, results, response>>
    /\ UNCHANGED <<data, self, message, botvars>>

\* the fields of the dataclass Stazione
StazioneFields ==
    {"timestamp", "idstazione", "ordinamento", "nomestaz", "lon", "lat",
     "soglia1", "soglia2", "soglia3", "value"}

\* get_matching_station: get_item of the whole item, then Stazione(**Item),
\* which raises TypeError unless the item has exactly the fields of the dataclass
GetMatchingStation(table, station_name) ==
    IF station_name \in DOMAIN table
    THEN IF DOMAIN table[station_name] = StazioneFields
         THEN [returns |-> "Stazione",
               stazione |-> [table[station_name] EXCEPT !.value = PostInit(@)]]
         ELSE [returns |-> "TypeError"]
    ELSE [returns |-> "None"]

\* ----------------------------------------------------- specifications
\* Spec: the scheduler starts a run when the run before it has ended
Scheduled == {"run1"}

Next ==
    \E r \in Scheduled :
        \/ handler(r)
        \/ main(r)
        \/ FetchLatestTime(r)
        \/ FetchStationsData(r)
        \/ \E k \in 1..MaxStations : FetchTimeSeries(r, k)
        \/ EnrichData(r)
        \/ CheckGetItem(r) /\ UNCHANGED freshest
        \/ CheckUpdateItem(r) /\ UNCHANGED freshest

Spec == Init /\ [][Next]_vars

\* SpecLive: one run, on a table with no record or with the record of one
\* upsert, where every await of the run ends: each request to the upstream
\* and each operation of the table returns or fails
LiveTables ==
    {<<>>} \cup {UpdateItem(<<>>, Stazione(time, UpstreamEntry(n, 1))) :
                    n \in Names, time \in ReadingTimes}

InitLive ==
    /\ stazioni \in LiveTables
    /\ pc = [r \in Runs |-> "idle"]
    /\ latest_time = [r \in Runs |-> 0]
    /\ stations = [r \in Runs |-> <<>>]
    /\ results = [r \in Runs |-> <<>>]
    /\ idx = [r \in Runs |-> 0]
    /\ response = [r \in Runs |-> NoResponse]
    /\ raised = [r \in Runs |-> "None"]
    /\ freshest = [n \in Names |-> NoCall]
    /\ chats = <<>>
    /\ clock = 0
    /\ bot = [c \in Invocations |-> Idle]
    /\ calls = <<>>
    /\ unseen_at = 0
    /\ data = <<>>
    /\ self = NoStazione
    /\ message = NoMessage

NextLive ==
    \E r \in Scheduled :
        \/ handler(r)
        \/ FetchLatestTime(r)
        \/ FetchStationsData(r)
        \/ \E k \in 1..MaxStations : FetchTimeSeries(r, k)
        \/ EnrichData(r)
        \/ CheckGetItem(r) /\ UNCHANGED freshest
        \/ CheckUpdateItem(r) /\ UNCHANGED freshest

Fairness ==
    \A r \in Scheduled :
        /\ WF_vars(FetchLatestTime(r))
        /\ WF_vars(FetchStationsData(r))
        /\ \A k \in 1..MaxStations : WF_vars(FetchTimeSeries(r, k))
        /\ WF_vars(EnrichData(r))
        /\ WF_vars(CheckGetItem(r) /\ UNCHANGED freshest)
        /\ WF_vars(CheckUpdateItem(r) /\ UNCHANGED freshest)

SpecLive == InitLive /\ [][NextLive]_vars /\ Fairness

\* The statements of update() before its for loop touch nothing that is shared:
\* where the runs overlap they are one step.  Its outcomes:
ResultsOf(n) == [1..n -> {Failed} \cup {Fetched(dati) : dati \in SeriesSet}]

IngestOutcomes ==
    {[stations |-> <<>>, raised |-> e] : e \in FetchErrors}
    \cup UNION {{EnrichOutcome(StationsOf(time, list), res) :
                      res \in ResultsOf(Len(StationsOf(time, list)))} :
                   <<time, list>> \in
                       Times \X {l \in UpstreamData :
                                    Len(StationsOf(0, l)) <= MaxOverlapStations}}

\* update() from its start to the for loop over the stations
Ingest(r) ==
    /\ pc[r] = "idle"
    /\ \E o \in IngestOutcomes :
         /\ stations' = [stations EXCEPT ![r] = o.stations]
         /\ raised' = [raised EXCEPT ![r] = o.raised]
         /\ IF o.raised = "None" /\ Len(o.stations) > 0
            THEN /\ pc' = [pc EXCEPT ![r] = "get_item"]
                 /\ idx' = [idx EXCEPT ![r] = 1]
            ELSE /\ pc' = [pc EXCEPT ![r] = "done"]
                 /\ idx' = [idx EXCEPT ![r] = 0]
    /\ response' = [response EXCEPT ![r] = NoResponse]
    /\ UNCHANGED <<stazioni, latest_time, results, freshest>>
    /\ UNCHANGED <<data, self, message, botvars>>

\* SpecFetch: fetch_stations_data on every response list and every time, from
\* the await of its request to the list it returns
InitFetch ==
    /\ stazioni = <<>>
    /\ pc = [r \in Runs |-> IF r = "run1" THEN "fetch_stations_data" ELSE "idle"]
    /\ latest_time \in {[r \in Runs |-> IF r = "run1" THEN time ELSE 0] : time \in Times}
    /\ stations = [r \in Runs |-> <<>>]
    /\ results = [r \in Runs |-> <<>>]
    /\ idx = [r \in Runs |-> 0]
    /\ response = [r \in Runs |-> NoResponse]
    /\ raised = [r \in Runs |-> "None"]
    /\ freshest = [n \in Names |-> NoCall]
    /\ chats = <<>>
    /\ clock = 0
    /\ bot = [c \in Invocations |-> Idle]
    /\ calls = <<>>
    /\ unseen_at = 0
    /\ data \in UpstreamData
    /\ self = NoStazione
    /\ message = NoMessage

FetchStationsDataOf(r) ==
    /\ pc[r] = "fetch_stations_data"
    /\ FetchStationsDataReturns(r, data)
    /\ UNCHANGED <<stazioni, latest_time, idx, response, freshest>>
    /\ UNCHANGED <<data, self, message, botvars>>

NextFetch == FetchStationsDataOf("run1")

SpecFetch == InitFetch /\ [][NextFetch]_vars

\* ----------------------------------------------- create_station_message
\* Alarm that tries the rule of the orange level before that of the yellow one
AlarmOrangeFirst(value, yellow, orange, red) ==
    IF value <= yellow THEN "green"
    ELSE IF value >= orange /\ value <= red THEN "orange"
    ELSE IF value > yellow /\ value <= orange THEN "yellow"
    ELSE "red"

\* lines 334-340: alarm is red unless the if / elif chain gives another level
Alarm(value, yellow, orange, red) ==
    IF value <= yellow THEN "green"
    ELSE IF value > yellow /\ value <= orange THEN "yellow"
    ELSE IF value >= orange /\ value <= red THEN "orange"
    ELSE "red"

\* create_station_message: the value and the alarm of the text; for the
\* sentinel the value is "non disponibile" and the alarm is empty
CreateStationMessageOf(st) ==
    IF st.value = UNKNOWN_VALUE
    THEN [value |-> "non disponibile", alarm |-> ""]
    ELSE [value |-> st.value,
          alarm |-> Alarm(st.value, st.soglia1, st.soglia2, st.soglia3)]

\* the stations create_station_message is called on: any reading, the
\* sentinel too, and any three thresholds
MessageStations ==
    {[Stazione(1, UpstreamEntry("Cesena", 1)) EXCEPT
         !.value = v, !.soglia1 = s1, !.soglia2 = s2, !.soglia3 = s3] :
        v \in {UNKNOWN_VALUE} \cup (0..MaxReading),
        s1 \in 1..MaxThreshold, s2 \in 1..MaxThreshold, s3 \in 1..MaxThreshold}

\* SpecMessage: create_station_message on every station of MessageStations
InitMessage ==
    /\ stazioni = <<>>
    /\ pc = [r \in Runs |-> "idle"]
    /\ latest_time = [r \in Runs |-> 0]
    /\ stations = [r \in Runs |-> <<>>]
    /\ results = [r \in Runs |-> <<>>]
    /\ idx = [r \in Runs |-> 0]
    /\ response = [r \in Runs |-> NoResponse]
    /\ raised = [r \in Runs |-> "None"]
    /\ freshest = [n \in Names |-> NoCall]
    /\ chats = <<>>
    /\ clock = 0
    /\ bot = [c \in Invocations |-> Idle]
    /\ calls = <<>>
    /\ unseen_at = 0
    /\ data = <<>>
    /\ self \in MessageStations
    /\ message = NoMessage

CreateStationMessage ==
    /\ message.alarm = NoMessage.alarm
    /\ message' = CreateStationMessageOf(self)
    /\ UNCHANGED <<stazioni, pc, latest_time, stations, results, idx, response, raised,
                   freshest, data, self>>
    /\ UNCHANGED botvars

NextMessage == CreateStationMessage

SpecMessage == InitMessage /\ [][NextMessage]_vars

\* SpecOverlap: two runs whose calls of check_and_update_stazioni interleave
NextOverlap ==
    \E r \in Runs :
        \/ Ingest(r)
        \/ main(r)
        \/ CheckGetItem(r) /\ UNCHANGED freshest
        \/ CheckUpdateItem(r) /\ UNCHANGED freshest

SpecOverlap == Init /\ [][NextOverlap]_vars

\* the history of the calls: a call that has ended (the table did not fail) is
\* added to the freshest calls of its station
Fresher(f, station) ==
    IF station.timestamp > f.ts
    THEN [ts |-> station.timestamp, vs |-> {NewValue(station)}]
    ELSE IF station.timestamp = f.ts
    THEN [f EXCEPT !.vs = @ \cup {NewValue(station)}]
    ELSE f

RecordCall(r) ==
    IF pc'[r] # "update_item" /\ raised'[r] # "ClientError"
    THEN freshest' = [freshest EXCEPT ![Current(r).nomestaz] = Fresher(@, Current(r))]
    ELSE UNCHANGED freshest

\* SpecCalls: one run after the other, with the history of the calls
NextCalls ==
    \E r \in Scheduled :
        \/ Ingest(r)
        \/ main(r)
        \/ CheckGetItem(r) /\ RecordCall(r)
        \/ CheckUpdateItem(r) /\ RecordCall(r)

SpecCalls == Init /\ [][NextCalls]_vars

\* ------------------------------------------------------------- throttle
\* the identities (user.id) the bot is called by
Ids == {42}

\* get_item(Key={"id": user.id}, ProjectionExpression="#cnt ,#tl")
GetItemCountTtl(table, id) ==
    IF id \in DOMAIN table
    THEN WithItem([a \in DOMAIN table[id] \cap {"count", "ttl"} |-> table[id][a]])
    ELSE NoItem

\* now_with_wait_time = int((now + timedelta(minutes=THROTTLING_TIME)).timestamp()):
\* epoch seconds; now is in whole minutes here, so int() cuts nothing off
NowWithWaitTime(now) == (now + THROTTLING_TIME) * SecondsPerMinute

\* int(response["Item"].get("count", 0))
StoredCount(resp) == IF "count" \in DOMAIN resp.Item THEN resp.Item.count ELSE 0

\* IsThrottled that lets one more call through
IsThrottledLate(resp) ==
    "Item" \in DOMAIN resp /\ StoredCount(resp) > THROTTLING_THRESHOLD + 1

\* line 143-144: "Item" in response and count > THROTTLING_THRESHOLD
IsThrottled(resp) ==
    "Item" \in DOMAIN resp /\ StoredCount(resp) > THROTTLING_THRESHOLD

\* WaitTime from the new cool-down expiry
WaitTimeFromNewTtl(resp, now) == NowWithWaitTime(now) - now * SecondsPerMinute

\* wait_time = int((datetime.fromtimestamp(int(Item.get("ttl"))) - now).total_seconds())
WaitTime(resp, now) == resp.Item.ttl - now * SecondsPerMinute

\* the item of key id with the attributes of attrs set, created when absent
SetAttributes(table, id, attrs) ==
    LET old == IF id \in DOMAIN table THEN table[id] ELSE [id |-> id]
        new == [a \in DOMAIN old \cup DOMAIN attrs |->
                   IF a \in DOMAIN attrs THEN attrs[a] ELSE old[a]]
    IN [k \in DOMAIN table \cup {id} |-> IF k = id THEN new ELSE table[k]]

\* update_item(Key, "set #tl = :new_ttl")
SetTtl(table, id, new_ttl) == SetAttributes(table, id, [ttl |-> new_ttl])

\* update_item(Key, "ADD #cnt :inc SET #tl = :new_ttl"): ADD starts from 0 when
\* the attribute or the item is not there
AddCountSetTtl(table, id, new_ttl) ==
    LET cnt == IF id \in DOMAIN table /\ "count" \in DOMAIN table[id]
               THEN table[id].count ELSE 0
    IN SetAttributes(table, id, [count |-> cnt + 1, ttl |-> new_ttl])

\* user_info = user.to_dict(); user_info.update({"count": 1, "ttl": ...});
\* put_item(Item=user_info): the item replaces the one that is there
PutItemUser(table, id, new_ttl) ==
    LET user_info == [id |-> id, is_bot |-> FALSE, first_name |-> "first_name",
                      last_name |-> "", username |-> "username",
                      language_code |-> "it", count |-> 1, ttl |-> new_ttl]
    IN [k \in DOMAIN table \cup {id} |-> IF k = id THEN user_info ELSE table[k]]

\* ThrottleWrite that adds to the count in the throttled branch too
ThrottleWriteAlwaysAdds(table, id, resp, now) ==
    IF "Item" \in DOMAIN resp
    THEN AddCountSetTtl(table, id, NowWithWaitTime(now))
    ELSE PutItemUser(table, id, NowWithWaitTime(now))

\* the table after the write of check_throttled_user, for the response it got
ThrottleWrite(table, id, resp, now) ==
    IF "Item" \in DOMAIN resp
    THEN IF IsThrottled(resp)
         THEN SetTtl(table, id, NowWithWaitTime(now))
         ELSE AddCountSetTtl(table, id, NowWithWaitTime(now))
    ELSE PutItemUser(table, id, NowWithWaitTime(now))

\* what check_throttled_user returns
ThrottleResult(resp, now) == IF IsThrottled(resp) THEN WaitTime(resp, now) ELSE 0

\* time goes on
Tick ==
    /\ clock + TickMinutes <= MaxClock
    /\ clock' = clock + TickMinutes
    /\ UNCHANGED <<chats, bot, calls, unseen_at>>
    /\ UNCHANGED fetchervars

\* the time to live of the table "Chats" (attribute "ttl"): DynamoDB deletes
\* an item some time after the epoch seconds of its ttl have passed
Expire(id) ==
    /\ id \in DOMAIN chats
    /\ chats[id].ttl < clock * SecondsPerMinute
    /\ chats' = [k \in DOMAIN chats \ {id} |-> chats[k]]
    /\ unseen_at' = Len(calls)
    /\ UNCHANGED <<clock, bot, calls>>
    /\ UNCHANGED fetchervars

\* ---------------------------------------------------------------- tgbot
\* KNOWN_STATIONS after KNOWN_STATIONS.sort(): four of its names, in their order
KNOWN_STATIONS == <<"Cesena", "Faenza", "Ponte Alto", "Ponte Dolo">>

\* a text is a sequence of tokens: "/", "@", " ", "erfiume_bot" and words
\* str.replace(old, ""): every occurrence of the token is taken out
Replace(text, old) == SelectSeq(text, LAMBDA tok : tok # old)

\* str.strip(): the blanks at both ends are cut off
RECURSIVE Strip(_)
Strip(text) ==
    IF text = <<>> THEN text
    ELSE IF Head(text) = " " THEN Strip(Tail(text))
    ELSE IF text[Len(text)] = " " THEN Strip(SubSeq(text, 1, Len(text) - 1))
    ELSE text

\* thefuzz.utils.full_process, the processor extractOne applies to the query
\* and to the choices: what is not a letter or a digit becomes a blank, then
\* strip (a word stands for its lower case here)
FullProcess(text) ==
    Strip([k \in 1..Len(text) |-> IF text[k] \in {"/", "@"} THEN " " ELSE text[k]])

\* thefuzz's WRatio, the scorer of extractOne, for the processed texts of
\* this model against the names of KNOWN_STATIONS, in their order: 100 for
\* equal texts only; 90 (partial_ratio 100, scaled by 0.9) for a text that is
\* a part of the name or has the name as a part; 91 for "cesna"
WRatio ==
    {[query |-> <<"Cesena">>, scores |-> <<100, 50, 30, 24>>],
     [query |-> <<"Faenza">>, scores |-> <<50, 100, 30, 24>>],
     [query |-> <<"Ponte Alto">>, scores |-> <<30, 30, 100, 80>>],
     [query |-> <<"Ponte Dolo">>, scores |-> <<24, 24, 80, 100>>],
     [query |-> <<"Ponte">>, scores |-> <<18, 18, 90, 90>>],
     [query |-> <<"Cesna">>, scores |-> <<91, 55, 36, 28>>],
     [query |-> <<"Cesena", " ", "erfiume_bot">>, scores |-> <<90, 45, 36, 36>>],
     [query |-> <<"zzz">>, scores |-> <<0, 36, 0, 0>>]}

\* the score of station k of KNOWN_STATIONS for a query; 0 for a query that
\* is empty when processed
ScoreOf(query, k) ==
    LET rows == {row \in WRatio : row.query = FullProcess(query)}
    IN IF rows = {} THEN 0 ELSE (CHOOSE row \in rows : TRUE).scores[k]

Score(query, name) ==
    ScoreOf(query, CHOOSE k \in 1..Len(KNOWN_STATIONS) : KNOWN_STATIONS[k] = name)

\* ExtractOne with no cutoff
ExtractOneNoCutoff(query) ==
    KNOWN_STATIONS[CHOOSE k \in 1..Len(KNOWN_STATIONS) :
        /\ \A j \in 1..Len(KNOWN_STATIONS) : ScoreOf(query, j) <= ScoreOf(query, k)
        /\ \A j \in 1..(k - 1) : ScoreOf(query, j) < ScoreOf(query, k)]

\* ExtractOne that takes the last of the names of the best score
ExtractOneLast(query) ==
    LET ok == {k \in 1..Len(KNOWN_STATIONS) : ScoreOf(query, k) >= FUZZ_SCORE_CUTOFF}
    IN IF ok = {} THEN ""
       ELSE KNOWN_STATIONS[CHOOSE k \in ok :
               /\ \A j \in ok : ScoreOf(query, j) <= ScoreOf(query, k)
               /\ \A j \in ok : j > k => ScoreOf(query, j) < ScoreOf(query, k)]

\* ExtractOne that takes the first name that reaches the cutoff
ExtractOneFirstOk(query) ==
    LET ok == {k \in 1..Len(KNOWN_STATIONS) : ScoreOf(query, k) >= FUZZ_SCORE_CUTOFF}
    IN IF ok = {} THEN ""
       ELSE KNOWN_STATIONS[CHOOSE k \in ok : \A j \in ok : k <= j]

\* process.extractOne(station_name, KNOWN_STATIONS, score_cutoff=FUZZ_SCORE_CUTOFF):
\* the first name of the best score, "" (None) when no score reaches the cutoff
ExtractOne(query) ==
    LET ok == {k \in 1..Len(KNOWN_STATIONS) :
                  Score(query, KNOWN_STATIONS[k]) >= FUZZ_SCORE_CUTOFF}
    IN IF ok = {} THEN ""
       ELSE KNOWN_STATIONS[CHOOSE k \in ok :
               /\ \A j \in ok : Score(query, KNOWN_STATIONS[j]) <= Score(query, KNOWN_STATIONS[k])
               /\ \A j \in ok : j < k =>
                      Score(query, KNOWN_STATIONS[j]) < Score(query, KNOWN_STATIONS[k])]

\* query of handle_private_message and of handle_group_message
QueryOf(update) ==
    IF update.handler = "handle_group_message"
    THEN Strip(Replace(Replace(update.text, "/"), "erfiume_bot"))
    ELSE Strip(Replace(update.text, "/"))

\* the texts of the messages the bot gets
Texts ==
    {<<"Cesena">>, <<"/", "Faenza">>, <<"/", "Cesena", "@", "erfiume_bot">>,
     <<"/", "Ponte Dolo">>, <<"Ponte">>, <<"Cesna">>, <<"zzz">>, <<"/">>, <<>>}

\* the updates Telegram sends: the handler the application gives the update
\* to, effective_user (none, a user with the fields of the dataclass User, a
\* user with no username), whether the update has a message, and its text
Updates ==
    [handler : {"cesena"}, effective_user : {"None", "User", "NoUsername"},
     id : Ids, message : BOOLEAN, text : {<<"/", "cesena">>}]
    \cup {u \in [handler : {"handle_private_message", "handle_group_message"},
                 effective_user : {"User"}, id : Ids, message : BOOLEAN, text : Texts] :
             ~u.message => u.text = <<>>}

\* an exception leaves the handler
Raises(b, e) == [b EXCEPT !.pc = "done", !.raised = e]

\* reply_html / send_message when the update has a message
Reply(b, text) ==
    [b EXCEPT !.pc = "done",
              !.replies = IF b.update.message THEN Append(@, text) ELSE @]

\* fuzz_search_station(station_name) up to its await of get_matching_station;
\* with no match it returns (None, "") and the handler sends its reply
FuzzSearchStation(b, station_name) ==
    IF ExtractOne(station_name) # ""
    THEN [b EXCEPT !.pc = "get_matching_station", !.match = ExtractOne(station_name)]
    ELSE Reply(b, "not_found")

\* application.process_update(update): the handler of the update runs to its
\* first await.  cesena builds User(**update.effective_user.to_dict()), which
\* raises TypeError for a user with no username, and calls check_throttled_user;
\* without effective_user it goes to fuzz_search_station("Cesena") at once.
\* The two message handlers go to fuzz_search_station for a message with a text.
ProcessUpdate(c, updates) ==
    /\ bot[c].pc = "idle"
    /\ \E u \in updates :
         /\ (u.handler = "cesena" /\ u.effective_user = "User") => Len(calls) < MaxCalls
         /\ LET b == [bot[c] EXCEPT !.update = u] IN
            bot' = [bot EXCEPT ![c] =
                CASE u.handler = "cesena" /\ u.effective_user = "None" ->
                         FuzzSearchStation(b, <<"Cesena">>)
                  [] u.handler = "cesena" /\ u.effective_user = "NoUsername" ->
                         Raises(b, "TypeError")
                  [] u.handler = "cesena" /\ u.effective_user = "User" ->
                         [b EXCEPT !.pc = "chats_get_item"]
                  [] u.handler # "cesena" /\ u.message /\ u.text # <<>> ->
                         FuzzSearchStation(b, QueryOf(u))
                  [] OTHER -> [b EXCEPT !.pc = "done"]]
    /\ UNCHANGED <<chats, clock, calls, unseen_at>>
    /\ UNCHANGED fetchervars

\* check_throttled_user: the await of get_item ends
CheckThrottledGetItem(c) ==
    /\ bot[c].pc = "chats_get_item"
    /\ \/ bot' = [bot EXCEPT ![c].response = GetItemCountTtl(chats, bot[c].update.id),
                             ![c].pc = "chats_write"]
       \/ bot' = [bot EXCEPT ![c] = Raises(@, "ClientError")]
    /\ UNCHANGED <<chats, clock, calls, unseen_at>>
    /\ UNCHANGED fetchervars

\* check_throttled_user from now = datetime.now() to its return: the write
\* (update_item or put_item), the result (response is gone with the return),
\* and cesena up to its next await: the throttled reply, or
\* fuzz_search_station("Cesena")
CheckThrottledWrite(c) ==
    /\ bot[c].pc = "chats_write"
    /\ \/ LET now == clock
              resp == bot[c].response
              is_throttled == ThrottleResult(resp, now)
              b == [bot[c] EXCEPT !.checked = TRUE, !.is_throttled = is_throttled,
                                 !.response = NoResponse]
          IN /\ chats' = ThrottleWrite(chats, bot[c].update.id, resp, now)
             /\ bot' = [bot EXCEPT ![c] =
                          IF is_throttled > 0 /\ b.update.message
                          THEN Reply(b, "throttled")
                          ELSE FuzzSearchStation(b, <<"Cesena">>)]
       \/ /\ bot' = [bot EXCEPT ![c] = Raises([@ EXCEPT !.response = NoResponse],
                                               "ClientError")]
          /\ UNCHANGED chats
    /\ UNCHANGED <<clock, unseen_at>>
    /\ UNCHANGED fetchervars

\* fuzz_search_station: the await of get_matching_station ends, and the
\* handler sends the message of the station or the text for no station
GetMatchingStationReturns(c) ==
    /\ bot[c].pc = "get_matching_station"
    /\ \/ LET found == GetMatchingStation(stazioni, bot[c].match) IN
          bot' = [bot EXCEPT ![c] =
                     CASE found.returns = "Stazione" ->
                              Reply([@ EXCEPT !.station = bot[c].match], "station")
                       [] found.returns = "None" -> Reply(@, "not_found")
                       [] OTHER -> Raises(@, found.returns)]
       \/ bot' = [bot EXCEPT ![c] = Raises(@, "ClientError")]
    /\ UNCHANGED <<chats, clock, calls, unseen_at>>
    /\ UNCHANGED fetchervars

\* bot() returns: the invocation is over
BotReturns(c) ==
    /\ bot[c].pc = "done"
    /\ bot' = [bot EXCEPT ![c] = Idle]
    /\ UNCHANGED <<chats, clock, calls, unseen_at>>
    /\ UNCHANGED fetchervars

\* the history of the calls of check_throttled_user that have returned: the
\* time of the call, its result, and whether its get_item found a record
RecordThrottle(c) ==
    IF ~bot[c].checked /\ bot'[c].checked
    THEN calls' = Append(calls, [t |-> clock, wait |-> bot'[c].is_throttled,
                                 item |-> "Item" \in DOMAIN bot[c].response])
    ELSE UNCHANGED calls

\* the tables of stations an invocation of the bot can find: none written yet,
\* or the record update_item has made for Cesena
BotTables == {<<>>, UpdateItem(<<>>, Stazione(1, UpstreamEntry("Cesena", 1)))}

InitBot ==
    /\ stazioni \in BotTables
    /\ pc = [r \in Runs |-> "idle"]
    /\ latest_time = [r \in Runs |-> 0]
    /\ stations = [r \in Runs |-> <<>>]
    /\ results = [r \in Runs |-> <<>>]
    /\ idx = [r \in Runs |-> 0]
    /\ response = [r \in Runs |-> NoResponse]
    /\ raised = [r \in Runs |-> "None"]
    /\ freshest = [n \in Names |-> NoCall]
    /\ chats = <<>>
    /\ clock = 0
    /\ bot = [c \in Invocations |-> Idle]
    /\ calls = <<>>
    /\ unseen_at = 0
    /\ data = <<>>
    /\ self = NoStazione
    /\ message = NoMessage

\* SpecBot: one invocation of the bot after the other, with the history
Serving == {"bot1"}

NextBot ==
    \/ \E c \in Serving :
          \/ ProcessUpdate(c, Updates)
          \/ CheckThrottledGetItem(c)
          \/ CheckThrottledWrite(c) /\ RecordThrottle(c)
          \/ GetMatchingStationReturns(c)
          \/ BotReturns(c)
    \/ Tick
    \/ \E id \in Ids : Expire(id)

SpecBot == InitBot /\ [][NextBot]_vars

\* SpecBotOverlap: two invocations whose steps interleave, each for a
\* /cesena command of a user
CesenaUpdates == {u \in Updates : u.handler = "cesena" /\ u.effective_user = "User"}

NextBotOverlap ==
    \/ \E c \in Invocations :
          \/ ProcessUpdate(c, CesenaUpdates)
          \/ CheckThrottledGetItem(c)
          \/ CheckThrottledWrite(c) /\ UNCHANGED calls
          \/ GetMatchingStationReturns(c)
          \/ BotReturns(c)
    \/ Tick
    \/ \E id \in Ids : Expire(id)

SpecBotOverlap == InitBot /\ [][NextBotOverlap]_vars

\* SpecBotRace: two invocations for /cesena commands whose steps interleave
\* within one minute of the clock, with the history of the calls of
\* check_throttled_user
NextBotRace ==
    \E c \in Invocations :
        \/ ProcessUpdate(c, CesenaUpdates)
        \/ CheckThrottledGetItem(c)
        \/ CheckThrottledWrite(c) /\ RecordThrottle(c)
        \/ GetMatchingStationReturns(c)
        \/ BotReturns(c)

SpecBotRace == InitBot /\ [][NextBotRace]_vars

\* ---------------------------------------------------------------- claims
\* run r has left a call of check_and_update_stazioni (returned, or raised
\* after get_item answered) and has not begun the next one
CallEnded(r) ==
    /\ response[r] # NoResponse
    /\ \/ pc[r] = "done"
       \/ pc[r] = "get_item" /\ idx[r] > 1

\* the station of that call
LastStation(r) ==
    IF pc[r] = "done" THEN stations[r][idx[r]] ELSE stations[r][idx[r] - 1]

\* C1: a call of check_and_update_stazioni for a station whose stored record
\* has a timestamp T, with a station timestamp t <= T, ends in the step that
\* read the record, without an update_item, and the table is as it was; so a
\* repeated upsert of the same data changes nothing after the first.
C1_OlderOrSameIsNoOp ==
    [][\A r \in Runs :
          ( /\ pc[r] = "get_item"
            /\ Current(r).nomestaz \in DOMAIN stazioni
            /\ Current(r).timestamp <= stazioni[Current(r).nomestaz].timestamp
            /\ <<pc[r], idx[r]>>' # <<pc[r], idx[r]>> )
          => /\ pc'[r] # "update_item"
             /\ stazioni' = stazioni]_vars

\* a call that read a stored timestamp not smaller than its own has returned
C1_Witness ==
    \E r \in Runs :
        /\ CallEnded(r)
        /\ raised[r] = "None"
        /\ "Item" \in DOMAIN response[r]
        /\ LastStation(r).timestamp <= response[r].Item.timestamp
        /\ stazioni[LastStation(r).nomestaz].timestamp = response[r].Item.timestamp

\* the update_item of run r has been applied in this step
Updated(r) ==
    /\ pc[r] = "update_item"
    /\ pc'[r] # "update_item"
    /\ raised'[r] = "None"

C3_CreatesFullRecord ==
    \A r \in Runs :
        (CallEnded(r) /\ response[r] = NoItem /\ raised[r] # "ClientError")
        => LET station == LastStation(r) IN
           /\ raised[r] = "None"
           /\ GetMatchingStation(stazioni, station.nomestaz)
                  = [returns |-> "Stazione", stazione |-> station]
           /\ \A t \in Times :
                  t < station.timestamp
                  => ~IsNewer([station EXCEPT !.timestamp = t],
                              stazioni[station.nomestaz].timestamp)

\* C4: when no call is under way, the stored timestamp of a station is the
\* largest timestamp the calls for the station have come with, and the stored
\* value is a value that came with that timestamp.
C4_FreshestWins ==
    \A n \in Names :
        freshest[n] # NoCall
        => /\ n \in DOMAIN stazioni
           /\ stazioni[n].timestamp = freshest[n].ts
           /\ stazioni[n].value \in freshest[n].vs

\* C5: no step lowers the stored timestamp of a station.
C5_TimestampNeverDecreases ==
    [][\A n \in DOMAIN stazioni :
          /\ n \in DOMAIN stazioni'
          /\ stazioni'[n].timestamp >= stazioni[n].timestamp]_vars

\* C6: a run that an exception of check_and_update_stazioni has ended has
\* called it for every station of its list: the exception of one station does
\* not keep the loop from the stations after it.
C6_FailedUpsertDoesNotBlock ==
    \A r \in Runs :
        (pc[r] = "done" /\ idx[r] >= 1 /\ raised[r] # "None")
        => idx[r] = Len(stations[r])

\* the for loop of enrich_data of run r runs in this step
Enriches(r) == pc[r] = "gather" /\ pc'[r] # "gather"

\* new is old with the timestamp of the latest reading of the series dati and
\* the value of a reading of that timestamp
IsLatestReading(new, old, dati) ==
    /\ \E j \in 1..Len(dati) :
          /\ \A k \in 1..Len(dati) : dati[k].t <= dati[j].t
          /\ new.timestamp = dati[j].t
          /\ new.value = dati[j].v
    /\ new = [old EXCEPT !.timestamp = new.timestamp, !.value = new.value]

\* C7: when the series of a station is fetched and empty, enrich_data returns
\* without an exception, that station is as it was, and every other station
\* with a series has the latest reading of its series.
C7_EmptySeriesKeepsSnapshot ==
    [][\A r \in Runs :
          (Enriches(r) /\ \E k \in 1..Len(results[r]) : results[r][k] = Fetched(<<>>))
          => /\ raised'[r] = "None"
             /\ \A k \in 1..Len(stations[r]) :
                   IF results[r][k].status = "ok" /\ results[r][k].dati # <<>>
                   THEN IsLatestReading(stations'[r][k], stations[r][k], results[r][k].dati)
                   ELSE stations'[r][k] = stations[r][k]]_vars

\* C8: when the fetch of some station has failed, enrich_data returns without
\* an exception, every station with a fetched, non-empty series has the latest
\* reading of its series, and every station whose fetch failed is as it was.
C8_FailedFetchSparesOthers ==
    [][\A r \in Runs :
          (Enriches(r) /\ \E k \in 1..Len(results[r]) : results[r][k] = Failed)
          => /\ raised'[r] = "None"
             /\ \A k \in 1..Len(stations[r]) :
                   /\ (results[r][k].status = "ok" /\ results[r][k].dati # <<>>)
                      => IsLatestReading(stations'[r][k], stations[r][k], results[r][k].dati)
                   /\ results[r][k] = Failed => stations'[r][k] = stations[r][k]]_vars

\* C9: enrich_data leaves the list with the same stations in the same order,
\* and every station with a fetched, non-empty series has the timestamp of the
\* latest reading of its series and the value of a reading of that timestamp.
C9_LatestReadingOfSeries ==
    [][\A r \in Runs :
          Enriches(r)
          => /\ Len(stations'[r]) = Len(stations[r])
             /\ \A k \in 1..Len(stations[r]) :
                   /\ stations'[r][k].nomestaz = stations[r][k].nomestaz
                   /\ (results[r][k].status = "ok" /\ results[r][k].dati # <<>>)
                      => /\ stations'[r][k].timestamp = MaxByT(results[r][k].dati).t
                         /\ \E j \in 1..Len(results[r][k].dati) :
                               /\ results[r][k].dati[j].t = stations'[r][k].timestamp
                               /\ results[r][k].dati[j].v = stations'[r][k].value]_vars

\* what station k of run r is after enrich_data, from the outcome of its own
\* fetch alone
OwnOutcome(r, k) ==
    IF results[r][k].status = "ok" /\ results[r][k].dati # <<>>
    THEN {st \in {[stations[r][k] EXCEPT !.timestamp = v.t, !.value = v.v] :
                     v \in {results[r][k].dati[j] : j \in 1..Len(results[r][k].dati)}} :
             IsLatestReading(st, stations[r][k], results[r][k].dati)}
    ELSE {stations[r][k]}

\* C10: whatever the order in which the fetches have completed, each station
\* is after enrich_data what the outcome of its own fetch makes it, and has no
\* reading of the series of another station.
C10_OwnSeriesOnly ==
    [][\A r \in Runs :
          Enriches(r) => \A k \in 1..Len(stations[r]) : stations'[r][k] \in OwnOutcome(r, k)]_vars

\* ------------------------------------------------------ claims: throttle
\* call k is in a burst that call k0 began: call k0 found no record, the
\* table has deleted no record since, and call k is less than a cool-down
\* window after call k0
InBurst(k0, k) ==
    /\ k0 > unseen_at
    /\ k0 <= k
    /\ ~calls[k0].item
    /\ calls[k].t < calls[k0].t + THROTTLING_TIME

\* C11: of the calls of check_throttled_user an identity with no record makes
\* inside one cool-down window, the table deleting nothing, calls 1 to
\* THROTTLING_THRESHOLD return 0 and call THROTTLING_THRESHOLD + 1 returns a
\* wait greater than 0.
C11_CallAfterThresholdWaits ==
    \A k0, k \in 1..Len(calls) :
        InBurst(k0, k)
        => /\ (k - k0 + 1 <= THROTTLING_THRESHOLD => calls[k].wait = 0)
           /\ (k - k0 + 1 = THROTTLING_THRESHOLD + 1 => calls[k].wait > 0)

\* every THROTTLING_THRESHOLD + 1 calls in a row take more than a cool-down
\* window: no window has more than THROTTLING_THRESHOLD calls
AtMostThresholdPerWindow ==
    \A k \in 1..Len(calls) :
        k > THROTTLING_THRESHOLD
        => calls[k].t - calls[k - THROTTLING_THRESHOLD].t > THROTTLING_TIME

\* C12: an identity with at most THROTTLING_THRESHOLD calls in every window
\* of THROTTLING_TIME gets 0 from every call, whenever the table deletes its
\* record.
C12_SlowCallerNeverThrottled ==
    AtMostThresholdPerWindow => \A k \in 1..Len(calls) : calls[k].wait = 0

\* the call of invocation c returns in this step, from the throttled branch
ThrottledReturn(c) ==
    /\ bot[c].pc = "chats_write"
    /\ IsThrottled(bot[c].response)
    /\ bot'[c].checked

\* the call of invocation c returns 0 in this step
ReturnsZero(c) ==
    /\ bot[c].pc = "chats_write"
    /\ bot'[c].checked
    /\ bot'[c].is_throttled = 0

HasCount(table, id) == id \in DOMAIN table /\ "count" \in DOMAIN table[id]

\* C13: the step in which a call that read a count above the threshold writes
\* and returns leaves the stored count of the identity as it was.
C13_ThrottledCallKeepsCount ==
    [][\A c \in Invocations :
          ThrottledReturn(c)
          => LET id == bot[c].update.id IN
             /\ HasCount(chats', id) <=> HasCount(chats, id)
             /\ HasCount(chats, id) => chats'[id].count = chats[id].count]_vars

\* a call has returned a wait, and the stored count is above the threshold
C13_Witness ==
    \E c \in Invocations :
        /\ bot[c].checked
        /\ bot[c].is_throttled > 0
        /\ HasCount(chats, bot[c].update.id)
        /\ chats[bot[c].update.id].count > THROTTLING_THRESHOLD

\* C14: a call that read a count above the threshold returns the cool-down
\* expiry the record held before the call, less the time of the call, in
\* seconds.
C14_ReturnsRemainingCoolDown ==
    [][\A c \in Invocations :
          (ThrottledReturn(c) /\ bot[c].update.id \in DOMAIN chats)
          => bot'[c].is_throttled
                 = chats[bot[c].update.id].ttl - clock * SecondsPerMinute]_vars

\* a call has returned a wait that is shorter than the whole cool-down
C14_Witness ==
    \E c \in Invocations :
        /\ bot[c].checked
        /\ bot[c].is_throttled > 0
        /\ bot[c].is_throttled < THROTTLING_TIME * SecondsPerMinute

\* C15: a call that returns 0 leaves the identity with a cool-down expiry of
\* the time of the call plus THROTTLING_TIME, and with a stored count one
\* above the count before (1 when there was no record).
C15_UnthrottledCallCounts ==
    [][\A c \in Invocations :
          ReturnsZero(c)
          => LET id == bot[c].update.id IN
             /\ id \in DOMAIN chats'
             /\ chats'[id].ttl = (clock + THROTTLING_TIME) * SecondsPerMinute
             /\ HasCount(chats', id)
             /\ chats'[id].count
                    = (IF HasCount(chats, id) THEN chats[id].count ELSE 0) + 1]_vars

\* the current time is past the cool-down expiry the call of invocation c read
Lapsed(c) ==
    /\ "Item" \in DOMAIN bot[c].response
    /\ bot[c].response.Item.ttl < clock * SecondsPerMinute

\* C17: a call made after the cool-down expiry of the identity's record has
\* passed returns 0 and leaves the identity with a count of 1, whatever the
\* count of the record was.
C17_LapsedIdentityIsUnseen ==
    [][\A c \in Invocations :
          (bot[c].pc = "chats_write" /\ Lapsed(c) /\ bot'[c].checked)
          => LET id == bot[c].update.id IN
             /\ bot'[c].is_throttled = 0
             /\ HasCount(chats', id)
             /\ chats'[id].count = 1]_vars

\* ------------------------------------------------------- claims: handlers
\* invocation c has resolved a station name, or is at the lookup in the
\* table of stations
Resolved(c) == bot[c].match # "" \/ bot[c].pc = "get_matching_station"

\* C16: a /cesena whose check_throttled_user returned a wait greater than 0
\* resolves no station name and makes no lookup in the table of stations,
\* whether the update has a message or not.
C16_ThrottledCesenaDoesNothing ==
    \A c \in Invocations :
        (bot[c].update.handler = "cesena" /\ bot[c].checked /\ bot[c].is_throttled > 0)
        => ~Resolved(c)

\* C18: an invocation that has resolved a station name or is at the lookup
\* in the table of stations has had its sender checked by
\* check_throttled_user before, whatever handler the update went to.
C18_ThrottleBeforeResolver ==
    \A c \in Invocations : Resolved(c) => bot[c].checked

\* ----------------------------------------------------- claims: the run
\* run r is before its call of enrich_data
BeforeEnrich(r) == pc[r] \in {"idle", "fetch_latest_time", "fetch_stations_data"}

\* fetch_latest_time or fetch_stations_data of run r raises in this step
FetchFails(r) ==
    /\ pc[r] \in {"fetch_latest_time", "fetch_stations_data"}
    /\ raised'[r] # "None"

\* the run r has ended with no list of stations
EndedWithoutStations(r) == pc[r] = "done" /\ stations[r] = <<>>

\* C19: the step in which fetch_latest_time or fetch_stations_data fails
\* ends the run with no list of stations, no series fetch and no call of the
\* table; no step the run takes up to it, and no step it takes after it
\* until the next run, changes the table of stations.
C19_FailedFetchProcessesNothing ==
    [][\A r \in Runs :
          /\ FetchFails(r)
             => /\ pc'[r] = "done"
                /\ stations'[r] = <<>>
                /\ results'[r] = <<>>
                /\ idx'[r] = 0
                /\ response'[r] = NoResponse
          /\ ((BeforeEnrich(r) \/ EndedWithoutStations(r)) /\ pc'[r] # pc[r])
             => /\ stazioni' = stazioni
                /\ pc'[r] \notin {"get_item", "update_item"}]_vars

\* a run has ended with a failure of one of the two fetches, and the table
\* holds what a run before it has written
C19_Witness ==
    \E r \in Runs :
        /\ EndedWithoutStations(r)
        /\ raised[r] \in FetchErrors
        /\ stazioni # <<>>

\* C20: the table of stations changes only in the update_item step of a run,
\* and a run comes to its calls of the table only from gather, when every
\* one of its series fetches has a result.
C20_WriteAfterEnrichment ==
    [][/\ stazioni' # stazioni => \E r \in Runs : pc[r] = "update_item"
       /\ \A r \in Runs :
             (pc[r] \notin {"get_item", "update_item"}
                 /\ pc'[r] \in {"get_item", "update_item"})
             => /\ pc[r] = "gather"
                /\ Len(results[r]) = Len(stations[r])
                /\ \A k \in 1..Len(results[r]) : results[r][k] # Pending]_vars

\* a run of MaxStations stations, all fetches done, is at a write
C20_Witness ==
    \E r \in Runs :
        /\ pc[r] = "update_item"
        /\ Len(stations[r]) = MaxStations
        /\ idx[r] = MaxStations

\* ------------------------------------------------------ claims: storage
\* a table operation of the call of run r fails in this step
TableFails(r) ==
    /\ pc[r] \in {"get_item", "update_item"}
    /\ raised[r] = "None"
    /\ raised'[r] = "ClientError"

\* C21: the step in which get_item or update_item of
\* check_and_update_stazioni fails raises the error to update(), which ends,
\* and leaves the table of stations as it was; the call has written nothing
\* before it, get_item being its only other operation.
C21_FailedOperationWritesNothing ==
    [][\A r \in Runs :
          /\ TableFails(r) => (pc'[r] = "done" /\ stazioni' = stazioni)
          /\ (pc[r] = "get_item" /\ pc'[r] # pc[r]) => stazioni' = stazioni]_vars

\* the update_item of a call has failed, for a station that has a record
C21_Witness ==
    \E r \in Runs :
        /\ pc[r] = "done"
        /\ raised[r] = "ClientError"
        /\ response[r] # NoResponse
        /\ "Item" \in DOMAIN response[r]
        /\ stations[r][idx[r]].nomestaz \in DOMAIN stazioni

\* the await of get_matching_station of invocation c ends in this step
LookupReturns(c) ==
    /\ bot[c].pc = "get_matching_station"
    /\ bot'[c].pc # "get_matching_station"

\* C22: get_matching_station raises only when the table operation fails;
\* when it does not fail it returns None for a name with no record and the
\* stored station for a name with a record, the records being those
\* check_and_update_stazioni writes.
C22_LookupReturnsStationOrNone ==
    [][\A c \in Invocations :
          LookupReturns(c)
          => /\ bot'[c].raised \in {"None", "ClientError"}
             /\ bot'[c].raised = "None"
                => bot'[c].station = (IF bot[c].match \in DOMAIN stazioni
                                      THEN bot[c].match ELSE "None")]_vars

\* ----------------------------------------------------- claims: resolver
\* the text invocation c gives to fuzz_search_station
StationName(c) ==
    IF bot[c].update.handler = "cesena" THEN <<"Cesena">> ELSE QueryOf(bot[c].update)

\* fuzz_search_station of invocation c has come to its result
FuzzCalled(c) ==
    \/ bot[c].match # ""
    \/ /\ bot[c].pc = "done"
       /\ \/ bot[c].replies = <<"not_found">>
          \/ /\ bot[c].update.handler \in {"handle_private_message", "handle_group_message"}
             /\ bot[c].update.message
             /\ bot[c].update.text # <<>>

\* station k of KNOWN_STATIONS has the best score for the text of c
IsBest(c, k) ==
    \A j \in 1..Len(KNOWN_STATIONS) : ScoreOf(StationName(c), j) <= ScoreOf(StationName(c), k)

\* C23: the name fuzz_search_station has resolved a text to is a name of
\* KNOWN_STATIONS whose score is the best of all names and at least
\* FUZZ_SCORE_CUTOFF; for a text no name scores that much for, it returns
\* (None, "") and the table of stations is not read.
C23_ResolvesBestAboveCutoff ==
    \A c \in Invocations :
        /\ bot[c].match # ""
           => \E k \in 1..Len(KNOWN_STATIONS) :
                 /\ KNOWN_STATIONS[k] = bot[c].match
                 /\ ScoreOf(StationName(c), k) >= FUZZ_SCORE_CUTOFF
                 /\ IsBest(c, k)
        /\ (\A k \in 1..Len(KNOWN_STATIONS) : ScoreOf(StationName(c), k) < FUZZ_SCORE_CUTOFF)
           => /\ bot[c].match = ""
              /\ bot[c].station = "None"
              /\ bot[c].pc # "get_matching_station"

\* a text no name is like has got the answer for no station
C23_Witness ==
    \E c \in Invocations :
        /\ bot[c].update.text = <<"zzz">>
        /\ bot[c].pc = "done"
        /\ bot[c].replies = <<"not_found">>

\* C24: of the names that have the best score for a text,
\* fuzz_search_station resolves to the first in the order of KNOWN_STATIONS.
C24_TieGoesToFirst ==
    \A c \in Invocations :
        bot[c].match # ""
        => \A j, k \in 1..Len(KNOWN_STATIONS) :
              (KNOWN_STATIONS[k] = bot[c].match /\ IsBest(c, j)) => k <= j

\* a text two names have the best score for is resolved to the first of them
C24_Witness ==
    \E c \in Invocations :
        /\ bot[c].update.text = <<"Ponte">>
        /\ IsBest(c, 3) /\ IsBest(c, 4)
        /\ bot[c].match = "Ponte Alto"

\* C25: a text that is a name of KNOWN_STATIONS is resolved to that name.
C25_ExactNameResolvesToItself ==
    \A c \in Invocations :
        \A k \in 1..Len(KNOWN_STATIONS) :
            (FuzzCalled(c) /\ StationName(c) = <<KNOWN_STATIONS[k]>>)
            => bot[c].match = KNOWN_STATIONS[k]

\* the name of a station that another name reaches the cutoff for, and that
\* is not the first of the list, is resolved to itself
C25_Witness ==
    \E c \in Invocations :
        /\ StationName(c) = <<"Ponte Dolo">>
        /\ ScoreOf(StationName(c), 3) >= FUZZ_SCORE_CUTOFF
        /\ bot[c].match = "Ponte Dolo"

\* ------------------------------------------------------ claims: replies
\* the update of invocation c is a query for a station that has a message
StationQuery(c) ==
    /\ bot[c].update # NoUpdate
    /\ bot[c].update.message
    /\ \/ bot[c].update.handler = "cesena"
       \/ bot[c].update.text # <<>>

\* C26: an invocation for a station query that has a message, and that no
\* error of a table has ended, ends with exactly one reply (the station, the
\* text for no station, or the throttled text) and with no exception.
C26_QueryGetsOneReply ==
    \A c \in Invocations :
        (bot[c].pc = "done" /\ StationQuery(c) /\ bot[c].raised # "ClientError")
        => /\ bot[c].raised = "None"
           /\ Len(bot[c].replies) = 1

\* ------------------------------------------------ claims: stations data
\* the places of data that hold a station (an entry with no "time")
StationPlaces == {i \in 1..Len(data) : "time" \notin DOMAIN data[i]}

\* the k-th place of data that holds a station
StationPlace(k) ==
    CHOOSE i \in StationPlaces : Cardinality({j \in StationPlaces : j <= i}) = k

\* C27: the list fetch_stations_data(at) returns has one station for every
\* entry of the upstream list that has no "time" and none for an entry that
\* has one, in the order of the upstream list, each with the timestamp at.
C27_OneStationPerEntrySkippingMarkers ==
    \A r \in Runs :
        pc[r] = "gather"
        => /\ Len(stations[r]) = Cardinality(StationPlaces)
           /\ \A k \in 1..Len(stations[r]) :
                 /\ stations[r][k].nomestaz = data[StationPlace(k)].nomestaz
                 /\ stations[r][k].idstazione = data[StationPlace(k)].idstazione
                 /\ stations[r][k].timestamp = latest_time[r]

\* the list returned for an upstream list with the watermark entry between
\* two station entries, at a time that is not the time of the watermark
C27_Witness ==
    \E r \in Runs :
        /\ pc[r] = "gather"
        /\ Len(data) = 3
        /\ "time" \in DOMAIN data[2]
        /\ data[2].time # latest_time[r]
        /\ Len(stations[r]) = 2

\* ------------------------------------------------------ claims: retries
\* C28: a run calls fetch_latest_time only at its start and
\* fetch_stations_data only after fetch_latest_time has returned, a failure
\* of either ends the run, the tasks of the series are created only when
\* fetch_stations_data has returned, and the outcome of the task of a
\* station, a failure too, stays what it is to the end of gather: no call is
\* made a second time within a run.
C28_NothingIsRetried ==
    [][\A r \in Runs :
          /\ (pc'[r] = "fetch_latest_time" /\ pc[r] # pc'[r]) => pc[r] = "idle"
          /\ (pc'[r] = "fetch_stations_data" /\ pc[r] # pc'[r])
             => pc[r] = "fetch_latest_time"
          /\ (pc[r] \in {"fetch_latest_time", "fetch_stations_data"}
              /\ raised'[r] # "None") => pc'[r] = "done"
          /\ (pc'[r] = "gather" /\ pc[r] # pc'[r]) => pc[r] = "fetch_stations_data"
          /\ (pc[r] = "gather" /\ pc'[r] = "gather")
             => \A k \in 1..Len(results[r]) :
                   results[r][k] # Pending => results'[r][k] = results[r][k]]_vars

\* gather has the failure of the task of the first station and the series of
\* the second
C28_Witness ==
    \E r \in Runs :
        /\ pc[r] = "gather"
        /\ Len(results[r]) = 2
        /\ results[r][1] = Failed
        /\ results[r][2].status = "ok"

\* ------------------------------------------------- claims: the records
\* run r takes a step of check_and_update_stazioni
CallStep(r) ==
    /\ pc[r] \in {"get_item", "update_item"}
    /\ pc'[r] # pc[r] \/ idx'[r] # idx[r]

\* the table with no other record than that of key
Only(table, key) == [k \in DOMAIN table \cap {key} |-> table[k]]

\* C29: a step of check_and_update_stazioni(station) leaves the record of
\* every other station as it is, and the response it reads is that of a table
\* that holds the record of station.nomestaz and no other; so also where the
\* calls of two runs for different stations interleave.
C29_TouchesOwnRecordOnly ==
    [][\A r \in Runs :
          CallStep(r)
          => /\ \A n \in DOMAIN stazioni :
                   n # Current(r).nomestaz
                   => n \in DOMAIN stazioni' /\ stazioni'[n] = stazioni[n]
             /\ \A n \in DOMAIN stazioni' :
                   n # Current(r).nomestaz => n \in DOMAIN stazioni
             /\ (pc[r] = "get_item" /\ response'[r] # NoResponse)
                => response'[r]
                     = GetItemTimestamp(Only(stazioni, Current(r).nomestaz),
                                        Current(r).nomestaz)]_vars

\* the table has the records of two stations and the two runs are both at
\* their update_item, each for one of the two
C29_Witness ==
    /\ Cardinality(DOMAIN stazioni) = 2
    /\ \A r \in Runs : pc[r] = "update_item"
    /\ \E r1, r2 \in Runs : Current(r1).nomestaz # Current(r2).nomestaz

\* C30: a name that has a record in the table Stazioni has one after every
\* step.
C30_RecordsAreNeverDeleted ==
    [][\A n \in DOMAIN stazioni : n \in DOMAIN stazioni']_vars

\* a run has ended after its update_item on a table that has the record of
\* another station, while the other run is in its call
C30_Witness ==
    \E r1, r2 \in Runs :
        /\ pc[r1] = "done"
        /\ raised[r1] = "None"
        /\ Len(stations[r1]) = 1
        /\ pc[r2] = "get_item"
        /\ Current(r2).nomestaz # stations[r1][1].nomestaz
        /\ Cardinality(DOMAIN stazioni) = 2
        /\ stazioni[stations[r1][1].nomestaz].timestamp = stations[r1][1].timestamp

\* ------------------------------------------- claims: failed series fetch
\* C31: when gather has ended with the failure of the series fetch of some
\* station, enrich_data returns without an exception, the stations whose
\* fetch failed keep the data of the snapshot, and update() goes on to its
\* loop of check_and_update_stazioni from the first station of the list.
C31_FailedSeriesGoesOnToUpserts ==
    [][\A r \in Runs :
          (/\ pc[r] = "gather"
           /\ pc'[r] # "gather"
           /\ \E k \in 1..Len(results[r]) : results[r][k] = Failed)
          => /\ raised'[r] = "None"
             /\ pc'[r] = "get_item"
             /\ idx'[r] = 1
             /\ \A k \in 1..Len(results[r]) :
                   results[r][k] = Failed => stations'[r][k] = stations[r][k]]_vars

\* ----------------------------------------------- claims: throttle races
\* no call of check_throttled_user is between its get_item and its return
NoCallInFlight == \A c \in Invocations : bot[c].pc \notin {"chats_get_item", "chats_write"}

\* the calls that have returned 0 since the identity last had no record
ZeroCallsSinceUnseen ==
    Cardinality({i \in (unseen_at + 1)..Len(calls) : calls[i].wait = 0})

\* C32: when the calls of check_throttled_user for an identity have ended,
\* overlapping or not, the stored count is not less than the number of the
\* calls that returned 0 since the identity last had no record.
C32_NoUnthrottledCallIsLost ==
    \A id \in Ids :
        (NoCallInFlight /\ id \in DOMAIN chats)
        => (IF "count" \in DOMAIN chats[id] THEN chats[id].count ELSE 0)
              >= ZeroCallsSinceUnseen

\* ------------------------------------------- claims: the wait returned
\* C33: no call of check_throttled_user returns a negative number.
C33_WaitIsNeverNegative ==
    \A i \in 1..Len(calls) : calls[i].wait >= 0

\* the time, in seconds, at which the wait call i returned is over
ReleaseTime(i) == calls[i].t * SecondsPerMinute + calls[i].wait

\* C34: of two throttled calls of an identity, the later one made before the
\* wait of the earlier one is over, the later one is not released later than
\* the earlier one.
C34_ReleaseTimeDoesNotMoveLater ==
    \A i, j \in 1..Len(calls) :
        (/\ calls[i].wait > 0
         /\ calls[j].wait > 0
         /\ calls[i].t < calls[j].t
         /\ calls[j].t * SecondsPerMinute < ReleaseTime(i))
        => ReleaseTime(j) <= ReleaseTime(i)

C36_OnlyNoneBecomesSentinel ==
    \A r \in Runs :
        pc[r] = "gather"
        => \A k \in 1..Len(stations[r]) :
              stations[r][k].value
                 = (IF data[StationPlace(k)].value = NoneValue
                    THEN UNKNOWN_VALUE
                    ELSE data[StationPlace(k)].value)

\* ------------------------------------------------ claims: alarm levels
Levels == <<"green", "yellow", "orange", "red">>

\* the place of a level in Levels
Rank(alarm) == CHOOSE k \in 1..Len(Levels) : Levels[k] = alarm

\* the station of the state with another reading
WithValue(w) == [self EXCEPT !.value = w]

\* C37: the text of create_station_message has no alarm for the sentinel and
\* exactly one of the four levels for every other reading: green up to
\* soglia1, else yellow up to soglia2, else orange from soglia2 to soglia3,
\* else red.  With thresholds in ascending order a larger reading never has a
\* lower level, and with soglia1 below soglia2 the reading soglia2 is yellow.
C37_OneAlarmLevelPerReading ==
    message.alarm # NoMessage.alarm
    => LET v == self.value
           s1 == self.soglia1
           s2 == self.soglia2
           s3 == self.soglia3
       IN /\ v = UNKNOWN_VALUE => message.alarm = ""
          /\ v # UNKNOWN_VALUE
             => /\ Cardinality({k \in 1..Len(Levels) : Levels[k] = message.alarm}) = 1
                /\ message.alarm = "green" <=> v <= s1
                /\ message.alarm = "yellow" <=> (s1 < v /\ v <= s2)
                /\ message.alarm = "orange" <=> (s1 < v /\ s2 < v /\ v <= s3)
                /\ message.alarm = "red" <=> (s1 < v /\ s2 < v /\ s3 < v)
                /\ (s1 <= s2 /\ s2 <= s3)
                   => \A w \in 0..MaxReading :
                         w >= v => Rank(CreateStationMessageOf(WithValue(w)).alarm)
                                      >= Rank(message.alarm)
                /\ (s1 < s2 /\ v = s2) => message.alarm = "yellow"

\* the text for a reading that is soglia2, with the thresholds in strictly
\* ascending order
C37_Witness ==
    /\ message.alarm # NoMessage.alarm
    /\ self.soglia1 < self.soglia2
    /\ self.soglia2 < self.soglia3
    /\ self.value = self.soglia2
    /\ message.alarm = "yellow"

\* --------------------------------------------------- claims: termination
\* C38: a run that has begun comes to the end of update(), where every
\* request to the upstream and every operation of the table returns or fails.
C38_EveryRunTerminates ==
    \A r \in Scheduled : (pc[r] = "fetch_latest_time") ~> (pc[r] = "done")

\* a run has come to its end after the upsert of the second of two stations
C38_Witness ==
    \E r \in Scheduled :
        /\ pc[r] = "done"
        /\ raised[r] = "None"
        /\ Len(stations[r]) = 2
        /\ idx[r] = 2
        /\ stations[r][1].nomestaz \in DOMAIN stazioni
        /\ stations[r][2].nomestaz \in DOMAIN stazioni

====
